---- MODULE Spec2Model ----
(***************************************************************************)
(* Model of display_oled.c: a repeating timer sets a flag, the main loop   *)
(* waits for the flag, captures NUM_SAMPLES readings of the ADC FIFO into  *)
(* adc_buffer with one DMA burst, waits for the burst, averages the        *)
(* converted readings and prints/renders the average.                      *)
(*                                                                         *)
(* The timer callback, the ADC and the DMA engine run asynchronously to    *)
(* the main loop; every statement of the main loop is one step, so every   *)
(* interleaving of ticks, conversions and transfers with it is explored.   *)
(***************************************************************************)
EXTENDS Integers, Sequences, FiniteSets, TLC

\* Number of samples per burst (100 in the source; reduced for checking).
NUM_SAMPLES == 3
\* Entries the ADC result FIFO can hold.
FifoDepth == 2
\* Saturation of the history counters.
MaxCount == 2
\* Largest 12-bit reading, (1 << 12) - 1.
RAW_MAX == 4095
\* Raw readings the ADC may deliver (12-bit values).
RawSamples == {825, 2048}

VARIABLES
    pc,            \* position of the main loop
    timer_fired,   \* volatile bool timer_fired
    timer_active,  \* the repeating timer is still registered
    wake,          \* an interrupt arrived while the core sleeps in __wfi()
    adc_running,   \* ADC free-running (adc_run)
    fifo_en,       \* ADC FIFO and its DMA request enabled (adc_fifo_setup)
    adc_fifo,      \* contents of the ADC FIFO
    adc_buffer,    \* uint16_t adc_buffer[NUM_SAMPLES]
    dma_busy,      \* the channel has a burst in flight
    dma_count,     \* transfers remaining in the burst
    dma_waddr,     \* next index of adc_buffer the channel writes
    i,             \* loop index of the averaging loop
    sum,           \* float sum (milli-degrees)
    avg_temp,      \* float avg_temp (milli-degrees)
    stdout,        \* last line printed: <<centi-degrees>>, <<>> before the first
    oled,          \* last temperature rendered: <<centi-degrees>>, <<>> before the first
    idle_ticks,    \* history: ticks since the flag was last cleared, fired in Idle
    cycles_since_tick, \* history: times the loop left Idle since the last tick
    drained,       \* history: entries the last drain step discarded
    trace, \* history: steps of the current cycle, in the order executed
    writes, \* history: indices of adc_buffer written by the current burst, in order
    lines_out, \* history: status lines printed in the current cycle
    frames_out, \* history: temperatures rendered on the display in the current cycle
    conv_raw, \* argument of the last call of convert_to_celsius
    conv_ret, \* value returned by the last call of convert_to_celsius
    busy_ticks, \* history: ticks since the flag was last cleared, fired in Sampling or Presenting
    credit  \* history: ticks fired minus cycles started, counted up to MaxCount

hw    == <<adc_running, fifo_en, adc_fifo, adc_buffer, dma_busy, dma_count, dma_waddr>>
cpu   == <<pc, i, sum, avg_temp>>
out   == <<stdout, oled>>
hist  == <<idle_ticks, cycles_since_tick, drained>>
vars  == <<pc, timer_fired, timer_active, wake, adc_running, fifo_en, adc_fifo,
           adc_buffer, dma_busy, dma_count, dma_waddr, i, sum, avg_temp,
           stdout, oled, idle_ticks, cycles_since_tick, drained,
           trace,
           writes,
           lines_out,
           frames_out,
           conv_raw,
           conv_ret,
           busy_ticks,
           credit>>

\* ---------------------------------------------------------------- phases
IdlePcs       == {"check", "wfi", "sleeping"}
SamplingPcs   == {"clear", "drain", "stop1", "setup", "run", "arm", "wait",
                  "stop2", "fold_init", "fold", "avg"}
PresentingPcs == {"print", "display"}

Phase(p) == IF p \in IdlePcs THEN "Idle"
            ELSE IF p \in SamplingPcs THEN "Sampling" ELSE "Presenting"

\* ---------------------------------------------------------------- samples
Sample(r, a) == [raw |-> r, age |-> a]
\* a sample that existed when the drain step ran is no longer of this cycle
Stale(s) == [s EXCEPT !.age = "stale"]
Sat(n) == IF n < MaxCount THEN n + 1 ELSE MaxCount

\* The steps of one cycle in program order (lines 105-141).
CycleOrder == <<"observe", "clear", "drain", "stop", "setup", "start", "arm",
                "wait", "stop", "average", "print", "display">>
\* one cycle started: one tick less to account for (kept at -1 once negative)
Dec(n) == IF n >= 0 THEN n - 1 ELSE n
\* record an output of the current cycle
Emit(log, v) == IF Len(log) < MaxCount THEN Append(log, v) ELSE log
\* record a step of the current cycle
Step(t, name) == IF Len(t) <= Len(CycleOrder) THEN Append(t, name) ELSE t

\* float convert_to_celsius(uint16_t raw), in fixed point: the voltage in units
\* of 10 microvolts, the result in milli-degrees Celsius.  MulDiv computes
\* floor(q * 10000 / 1721) without leaving 32 bits.
MulDiv(q, m, d) == (q \div d) * m + ((q % d) * m) \div d

\* Variant: the conversion factor 3.3 / (1 << 12) computed in integers, i.e. 0.
convert_to_celsius_int_factor(raw) ==
    LET voltage == raw * (3 \div 4096)
    IN  27000 - MulDiv(voltage - 70600, 10000, 1721)

convert_to_celsius(raw) ==
    LET voltage == (raw * 330000) \div 4096
    IN  27000 - MulDiv(voltage - 70600, 10000, 1721)

\* "%.2f": milli-degrees rounded to centi-degrees
Format2(t) == (t + 5) \div 10

\* ---------------------------------------------------------------- initial state
Init ==
    /\ pc = "check"
    /\ timer_fired = FALSE
    /\ timer_active = TRUE
    /\ wake = FALSE
    /\ adc_running = FALSE
    /\ fifo_en = FALSE
    /\ adc_fifo = <<>>
    /\ adc_buffer = [k \in 0..(NUM_SAMPLES - 1) |-> Sample(0, "stale")]
    /\ dma_busy = FALSE
    /\ dma_count = 0
    /\ dma_waddr = 0
    /\ i = 0
    /\ sum = 0
    /\ avg_temp = 0
    /\ stdout = <<>>
    /\ oled = <<>>
    /\ idle_ticks = 0
    /\ cycles_since_tick = 0
    /\ drained = 0
    /\ trace = <<>>
    /\ writes = <<>>
    /\ lines_out = <<>>
    /\ frames_out = <<>>
    /\ conv_raw = 0
    /\ conv_ret = convert_to_celsius(0)
    /\ busy_ticks = 0
    /\ credit = 0

\* ---------------------------------------------------------------- timer
\* Variant: the callback also reports on the console.
alarm_callback_prints ==
    /\ timer_active
    /\ timer_fired' = TRUE
    /\ timer_active' = TRUE
    /\ wake' = (wake \/ pc = "sleeping")
    /\ idle_ticks' = IF pc \in IdlePcs THEN Sat(idle_ticks) ELSE idle_ticks
    /\ cycles_since_tick' = 0
    /\ stdout' = <<0>>
    /\ UNCHANGED <<hw, cpu, oled, drained>>
    /\ UNCHANGED <<trace, writes>>
    /\ lines_out' = Emit(lines_out, 0)
    /\ UNCHANGED <<frames_out, conv_raw, conv_ret>>
    /\ busy_ticks' = IF pc \in (SamplingPcs \ {"clear"}) \cup PresentingPcs
                   THEN Sat(busy_ticks) ELSE busy_ticks
    /\ credit' = Sat(credit)

\* Variant: the callback returns false, which ends the repeating timer.
alarm_callback_once ==
    /\ timer_active
    /\ timer_fired' = TRUE
    /\ timer_active' = FALSE
    /\ wake' = (wake \/ pc = "sleeping")
    /\ idle_ticks' = IF pc \in IdlePcs THEN Sat(idle_ticks) ELSE idle_ticks
    /\ cycles_since_tick' = 0
    /\ UNCHANGED <<hw, cpu, out, drained>>
    /\ UNCHANGED <<trace, writes, lines_out, frames_out, conv_raw, conv_ret>>
    /\ busy_ticks' = IF pc \in (SamplingPcs \ {"clear"}) \cup PresentingPcs
                   THEN Sat(busy_ticks) ELSE busy_ticks
    /\ credit' = Sat(credit)

\* bool alarm_callback(repeating_timer_t *rt): sets the flag, returns true.
alarm_callback ==
    /\ timer_active
    /\ timer_fired' = TRUE
    /\ timer_active' = TRUE
    /\ wake' = (wake \/ pc = "sleeping")
    /\ idle_ticks' = IF pc \in IdlePcs THEN Sat(idle_ticks) ELSE idle_ticks
    /\ cycles_since_tick' = 0
    /\ UNCHANGED <<hw, cpu, out, drained>>
    /\ UNCHANGED <<trace, writes, lines_out, frames_out, conv_raw, conv_ret>>
    /\ busy_ticks' = IF pc \in (SamplingPcs \ {"clear"}) \cup PresentingPcs
                   THEN Sat(busy_ticks) ELSE busy_ticks
    /\ credit' = Sat(credit)

\* Any other interrupt (USB stdio) also ends a __wfi().
OtherIrq ==
    /\ pc = "sleeping"
    /\ ~wake
    /\ wake' = TRUE
    /\ UNCHANGED <<timer_fired, timer_active, hw, cpu, out, hist>>
    /\ UNCHANGED <<trace, writes, lines_out, frames_out,
                   conv_raw, conv_ret, busy_ticks, credit>>

\* ---------------------------------------------------------------- ADC
\* One conversion of the free-running ADC; the result goes to the FIFO,
\* and is lost when the FIFO is full.
AdcSample ==
    /\ adc_running
    /\ fifo_en
    /\ \E r \in RawSamples :
         adc_fifo' = IF Len(adc_fifo) < FifoDepth
                     THEN Append(adc_fifo, Sample(r, "fresh"))
                     ELSE adc_fifo
    /\ UNCHANGED <<adc_running, fifo_en, adc_buffer, dma_busy, dma_count, dma_waddr,
                   timer_fired, timer_active, wake, cpu, out, hist>>
    /\ UNCHANGED <<trace, writes, lines_out, frames_out,
                   conv_raw, conv_ret, busy_ticks, credit>>

\* ---------------------------------------------------------------- DMA
\* Variant: the channel reports completion one transfer early.
DmaTransfer_early ==
    /\ dma_busy
    /\ fifo_en
    /\ Len(adc_fifo) >= 1
    /\ adc_buffer' = IF dma_waddr \in DOMAIN adc_buffer
                     THEN [adc_buffer EXCEPT ![dma_waddr] = Head(adc_fifo)]
                     ELSE adc_buffer
    /\ adc_fifo' = Tail(adc_fifo)
    /\ dma_waddr' = dma_waddr + 1
    /\ dma_count' = dma_count - 1
    /\ dma_busy' = (dma_count - 1 > 1)
    /\ UNCHANGED <<adc_running, fifo_en, timer_fired, timer_active, wake, cpu, out, hist>>
    /\ UNCHANGED trace
    /\ writes' = Append(writes, dma_waddr)
    /\ UNCHANGED <<lines_out, frames_out, conv_raw, conv_ret, busy_ticks, credit>>

\* Variant: the write address does not increment.
DmaTransfer_fixed_dest ==
    /\ dma_busy
    /\ fifo_en
    /\ Len(adc_fifo) >= 1
    /\ adc_buffer' = IF dma_waddr \in DOMAIN adc_buffer
                     THEN [adc_buffer EXCEPT ![dma_waddr] = Head(adc_fifo)]
                     ELSE adc_buffer
    /\ adc_fifo' = Tail(adc_fifo)
    /\ dma_waddr' = dma_waddr
    /\ dma_count' = dma_count - 1
    /\ dma_busy' = (dma_count - 1 > 0)
    /\ UNCHANGED <<adc_running, fifo_en, timer_fired, timer_active, wake, cpu, out, hist>>
    /\ UNCHANGED trace
    /\ writes' = Append(writes, dma_waddr)
    /\ UNCHANGED <<lines_out, frames_out, conv_raw, conv_ret, busy_ticks, credit>>

\* One transfer of the burst, paced by DREQ_ADC: FIFO head -> adc_buffer,
\* write address incrementing, read address fixed; a write past the end of
\* the array leaves the array as it is.
DmaTransfer ==
    /\ dma_busy
    /\ fifo_en
    /\ Len(adc_fifo) >= 1
    /\ adc_buffer' = IF dma_waddr \in DOMAIN adc_buffer
                     THEN [adc_buffer EXCEPT ![dma_waddr] = Head(adc_fifo)]
                     ELSE adc_buffer
    /\ adc_fifo' = Tail(adc_fifo)
    /\ dma_waddr' = dma_waddr + 1
    /\ dma_count' = dma_count - 1
    /\ dma_busy' = (dma_count - 1 > 0)
    /\ UNCHANGED <<adc_running, fifo_en, timer_fired, timer_active, wake, cpu, out, hist>>
    /\ UNCHANGED trace
    /\ writes' = Append(writes, dma_waddr)
    /\ UNCHANGED <<lines_out, frames_out, conv_raw, conv_ret, busy_ticks, credit>>

\* ---------------------------------------------------------------- main loop
\* Variant: the loop does not test the flag.
CheckFlag_untested ==
    /\ pc = "check"
    /\ pc' = "clear"
    /\ cycles_since_tick' = Sat(cycles_since_tick)
    /\ UNCHANGED <<timer_fired, timer_active, wake, hw, i, sum, avg_temp, out,
                   idle_ticks, drained>>
    /\ trace' = <<"observe">>
    /\ UNCHANGED writes
    /\ lines_out' = <<>>
    /\ frames_out' = <<>>
    /\ UNCHANGED <<conv_raw, conv_ret, busy_ticks>>
    /\ credit' = Dec(credit)

\* while (!timer_fired)
CheckFlag ==
    /\ pc = "check"
    /\ pc' = IF timer_fired THEN "clear" ELSE "wfi"
    /\ cycles_since_tick' = IF timer_fired THEN Sat(cycles_since_tick)
                            ELSE cycles_since_tick
    /\ UNCHANGED <<timer_fired, timer_active, wake, hw, i, sum, avg_temp, out,
                   idle_ticks, drained>>
    /\ trace' = IF timer_fired THEN <<"observe">> ELSE trace
    /\ UNCHANGED writes
    /\ lines_out' = IF timer_fired THEN <<>> ELSE lines_out
    /\ frames_out' = IF timer_fired THEN <<>> ELSE frames_out
    /\ UNCHANGED <<conv_raw, conv_ret, busy_ticks>>
    /\ credit' = IF timer_fired THEN Dec(credit) ELSE credit

\* __wfi(): the core goes to sleep
Wfi ==
    /\ pc = "wfi"
    /\ pc' = "sleeping"
    /\ wake' = FALSE
    /\ UNCHANGED <<timer_fired, timer_active, hw, i, sum, avg_temp, out, hist>>
    /\ UNCHANGED <<trace, writes, lines_out, frames_out,
                   conv_raw, conv_ret, busy_ticks, credit>>

\* Variant: the flag is reset on wake-up, before the loop tests it.
WfiReturn_clears ==
    /\ pc = "sleeping"
    /\ wake
    /\ wake' = FALSE
    /\ timer_fired' = FALSE
    /\ pc' = "check"
    /\ UNCHANGED <<timer_active, hw, i, sum, avg_temp, out, hist>>
    /\ UNCHANGED <<trace, writes, lines_out, frames_out, conv_raw, conv_ret>>
    /\ UNCHANGED <<busy_ticks, credit>>

\* __wfi() returns after an interrupt
WfiReturn ==
    /\ pc = "sleeping"
    /\ wake
    /\ wake' = FALSE
    /\ pc' = "check"
    /\ UNCHANGED <<timer_fired, timer_active, hw, i, sum, avg_temp, out, hist>>
    /\ UNCHANGED <<trace, writes, lines_out, frames_out,
                   conv_raw, conv_ret, busy_ticks, credit>>

\* Variant: the flag treated as a counter of ticks, decremented by the loop.
ClearFlag_counter ==
    /\ pc = "clear"
    /\ timer_fired' = (idle_ticks > 1)
    /\ idle_ticks' = IF idle_ticks > 0 THEN idle_ticks - 1 ELSE 0
    /\ pc' = "drain"
    /\ UNCHANGED <<timer_active, wake, hw, i, sum, avg_temp, out,
                   cycles_since_tick, drained>>
    /\ trace' = Step(trace, "clear")
    /\ UNCHANGED <<writes, lines_out, frames_out, conv_raw, conv_ret>>
    /\ busy_ticks' = 0
    /\ UNCHANGED credit

\* timer_fired = false;
ClearFlag ==
    /\ pc = "clear"
    /\ timer_fired' = FALSE
    /\ idle_ticks' = 0
    /\ pc' = "drain"
    /\ UNCHANGED <<timer_active, wake, hw, i, sum, avg_temp, out,
                   cycles_since_tick, drained>>
    /\ trace' = Step(trace, "clear")
    /\ UNCHANGED <<writes, lines_out, frames_out, conv_raw, conv_ret>>
    /\ busy_ticks' = 0
    /\ UNCHANGED credit

\* Variant: the FIFO is not drained.
adc_fifo_drain_skipped(fifo) == fifo

\* adc_fifo_drain(): reads the FIFO until it is empty
adc_fifo_drain(fifo) == <<>>

Drain ==
    /\ pc = "drain"
    /\ adc_fifo' = adc_fifo_drain([k \in DOMAIN adc_fifo |-> Stale(adc_fifo[k])])
    /\ adc_buffer' = [k \in DOMAIN adc_buffer |-> Stale(adc_buffer[k])]
    /\ drained' = Len(adc_fifo)
    /\ pc' = "stop1"
    /\ UNCHANGED <<adc_running, fifo_en, dma_busy, dma_count, dma_waddr,
                   timer_fired, timer_active, wake, i, sum, avg_temp, out,
                   idle_ticks, cycles_since_tick>>
    /\ trace' = Step(trace, "drain")
    /\ UNCHANGED <<writes, lines_out, frames_out,
                   conv_raw, conv_ret, busy_ticks, credit>>

\* Variant: the FIFO is not reconfigured; the ADC is restarted right away.
AdcStop1_no_setup ==
    /\ pc = "stop1"
    /\ adc_running' = FALSE
    /\ pc' = "run"
    /\ UNCHANGED <<fifo_en, adc_fifo, adc_buffer, dma_busy, dma_count, dma_waddr,
                   timer_fired, timer_active, wake, i, sum, avg_temp, out, hist>>
    /\ trace' = Step(trace, "stop")
    /\ UNCHANGED <<writes, lines_out, frames_out,
                   conv_raw, conv_ret, busy_ticks, credit>>

\* adc_run(false);   (before the reconfiguration)
AdcStop1 ==
    /\ pc = "stop1"
    /\ adc_running' = FALSE
    /\ pc' = "setup"
    /\ UNCHANGED <<fifo_en, adc_fifo, adc_buffer, dma_busy, dma_count, dma_waddr,
                   timer_fired, timer_active, wake, i, sum, avg_temp, out, hist>>
    /\ trace' = Step(trace, "stop")
    /\ UNCHANGED <<writes, lines_out, frames_out,
                   conv_raw, conv_ret, busy_ticks, credit>>

\* adc_fifo_setup(true, true, 1, false, false);
FifoSetup ==
    /\ pc = "setup"
    /\ fifo_en' = TRUE
    /\ pc' = "run"
    /\ UNCHANGED <<adc_running, adc_fifo, adc_buffer, dma_busy, dma_count, dma_waddr,
                   timer_fired, timer_active, wake, i, sum, avg_temp, out, hist>>
    /\ trace' = Step(trace, "setup")
    /\ UNCHANGED <<writes, lines_out, frames_out,
                   conv_raw, conv_ret, busy_ticks, credit>>

\* Variant: the ADC is not restarted before the burst.
AdcStart_absent ==
    /\ pc = "run"
    /\ pc' = "arm"
    /\ UNCHANGED <<timer_fired, timer_active, wake, hw, i, sum, avg_temp, out, hist>>
    /\ UNCHANGED <<trace, writes, lines_out, frames_out,
                   conv_raw, conv_ret, busy_ticks, credit>>

\* adc_run(true);
AdcStart ==
    /\ pc = "run"
    /\ adc_running' = TRUE
    /\ pc' = "arm"
    /\ UNCHANGED <<fifo_en, adc_fifo, adc_buffer, dma_busy, dma_count, dma_waddr,
                   timer_fired, timer_active, wake, i, sum, avg_temp, out, hist>>
    /\ trace' = Step(trace, "start")
    /\ UNCHANGED <<writes, lines_out, frames_out,
                   conv_raw, conv_ret, busy_ticks, credit>>

\* dma_channel_configure(dma_chan, &cfg, adc_buffer, &adc_hw->fifo, NUM_SAMPLES, true);
DmaConfigure ==
    /\ pc = "arm"
    /\ dma_waddr' = 0
    /\ dma_count' = NUM_SAMPLES
    /\ dma_busy' = TRUE
    /\ pc' = "wait"
    /\ UNCHANGED <<adc_running, fifo_en, adc_fifo, adc_buffer,
                   timer_fired, timer_active, wake, i, sum, avg_temp, out, hist>>
    /\ trace' = Step(trace, "arm")
    /\ writes' = <<>>
    /\ UNCHANGED <<lines_out, frames_out, conv_raw, conv_ret, busy_ticks, credit>>

\* Variant: the wait does not block.
WaitFinished_nonblocking(busy) == TRUE

\* dma_channel_wait_for_finish_blocking(dma_chan): spins while the channel is busy
WaitFinished(busy) == ~busy

\* Variant: the main loop goes on without waiting for the channel.
DmaWait_absent ==
    /\ pc = "wait"
    /\ pc' = "stop2"
    /\ UNCHANGED <<timer_fired, timer_active, wake, hw, i, sum, avg_temp, out, hist>>
    /\ UNCHANGED <<trace, writes, lines_out, frames_out,
                   conv_raw, conv_ret, busy_ticks, credit>>

DmaWait ==
    /\ pc = "wait"
    /\ WaitFinished(dma_busy)
    /\ pc' = "stop2"
    /\ UNCHANGED <<timer_fired, timer_active, wake, hw, i, sum, avg_temp, out, hist>>
    /\ trace' = Step(trace, "wait")
    /\ UNCHANGED <<writes, lines_out, frames_out,
                   conv_raw, conv_ret, busy_ticks, credit>>

\* Variant: the ADC is left running after the burst.
AdcStop2_absent ==
    /\ pc = "stop2"
    /\ pc' = "fold_init"
    /\ UNCHANGED <<timer_fired, timer_active, wake, hw, i, sum, avg_temp, out, hist>>
    /\ UNCHANGED <<trace, writes, lines_out, frames_out,
                   conv_raw, conv_ret, busy_ticks, credit>>

\* adc_run(false);   (after the burst)
AdcStop2 ==
    /\ pc = "stop2"
    /\ adc_running' = FALSE
    /\ pc' = "fold_init"
    /\ UNCHANGED <<fifo_en, adc_fifo, adc_buffer, dma_busy, dma_count, dma_waddr,
                   timer_fired, timer_active, wake, i, sum, avg_temp, out, hist>>
    /\ trace' = Step(trace, "stop")
    /\ UNCHANGED <<writes, lines_out, frames_out,
                   conv_raw, conv_ret, busy_ticks, credit>>

\* Variant: the loop starts at the second entry.
FoldInit_from_one ==
    /\ pc = "fold_init"
    /\ sum' = 0
    /\ i' = 1
    /\ pc' = "fold"
    /\ UNCHANGED <<timer_fired, timer_active, wake, hw, avg_temp, out, hist>>
    /\ UNCHANGED <<trace, writes, lines_out, frames_out>>
    /\ UNCHANGED <<conv_raw, conv_ret, busy_ticks, credit>>

\* float sum = 0.0f; for (int i = 0; ...
FoldInit ==
    /\ pc = "fold_init"
    /\ sum' = 0
    /\ i' = 0
    /\ pc' = "fold"
    /\ UNCHANGED <<timer_fired, timer_active, wake, hw, avg_temp, out, hist>>
    /\ UNCHANGED <<trace, writes, lines_out, frames_out,
                   conv_raw, conv_ret, busy_ticks, credit>>

\* Variant: every converted sample is printed as it is added.
FoldStep_prints ==
    /\ pc = "fold"
    /\ IF i < NUM_SAMPLES
       THEN /\ sum' = sum + convert_to_celsius(adc_buffer[i].raw)
            /\ i' = i + 1
            /\ pc' = "fold"
            /\ stdout' = <<Format2(convert_to_celsius(adc_buffer[i].raw))>>
            /\ lines_out' = Emit(lines_out, Format2(convert_to_celsius(adc_buffer[i].raw)))
       ELSE /\ pc' = "avg"
            /\ UNCHANGED <<i, sum, stdout, lines_out>>
    /\ UNCHANGED <<timer_fired, timer_active, wake, hw, avg_temp, oled, hist>>
    /\ UNCHANGED <<trace, writes, frames_out>>
    /\ conv_raw' = IF i < NUM_SAMPLES THEN adc_buffer[i].raw ELSE conv_raw
    /\ conv_ret' = IF i < NUM_SAMPLES THEN convert_to_celsius(adc_buffer[i].raw) ELSE conv_ret
    /\ UNCHANGED <<busy_ticks, credit>>

\* i < NUM_SAMPLES: sum += convert_to_celsius(adc_buffer[i]); i++
FoldStep ==
    /\ pc = "fold"
    /\ IF i < NUM_SAMPLES
       THEN /\ sum' = sum + convert_to_celsius(adc_buffer[i].raw)
            /\ i' = i + 1
            /\ pc' = "fold"
       ELSE /\ pc' = "avg"
            /\ UNCHANGED <<i, sum>>
    /\ UNCHANGED <<timer_fired, timer_active, wake, hw, avg_temp, out, hist>>
    /\ UNCHANGED <<trace, writes, lines_out, frames_out>>
    /\ conv_raw' = IF i < NUM_SAMPLES THEN adc_buffer[i].raw ELSE conv_raw
    /\ conv_ret' = IF i < NUM_SAMPLES THEN convert_to_celsius(adc_buffer[i].raw) ELSE conv_ret
    /\ UNCHANGED <<busy_ticks, credit>>

\* float avg_temp = sum / NUM_SAMPLES;
Average ==
    /\ pc = "avg"
    /\ avg_temp' = sum \div NUM_SAMPLES
    /\ pc' = "print"
    /\ UNCHANGED <<timer_fired, timer_active, wake, hw, i, sum, out, hist>>
    /\ trace' = Step(trace, "average")
    /\ UNCHANGED <<writes, lines_out, frames_out,
                   conv_raw, conv_ret, busy_ticks, credit>>

\* printf("Temperatura média: %.2f °C\n", avg_temp);
PrintLine ==
    /\ pc = "print"
    /\ stdout' = <<Format2(avg_temp)>>
    /\ pc' = "display"
    /\ UNCHANGED <<timer_fired, timer_active, wake, hw, i, sum, avg_temp, oled, hist>>
    /\ trace' = Step(trace, "print")
    /\ UNCHANGED writes
    /\ lines_out' = Emit(lines_out, Format2(avg_temp))
    /\ UNCHANGED <<frames_out, conv_raw, conv_ret, busy_ticks, credit>>

\* Variant: the flag is cleared again at the end of the cycle.
display_temperature_clears ==
    /\ pc = "display"
    /\ oled' = <<Format2(avg_temp)>>
    /\ timer_fired' = FALSE
    /\ pc' = "check"
    /\ UNCHANGED <<timer_active, wake, hw, i, sum, avg_temp, stdout, hist>>
    /\ trace' = Step(trace, "display")
    /\ UNCHANGED <<writes, lines_out>>
    /\ frames_out' = Emit(frames_out, Format2(avg_temp))
    /\ UNCHANGED <<conv_raw, conv_ret, busy_ticks, credit>>

\* display_temperature(avg_temp, ssd, &frame_area);
display_temperature ==
    /\ pc = "display"
    /\ oled' = <<Format2(avg_temp)>>
    /\ pc' = "check"
    /\ UNCHANGED <<timer_fired, timer_active, wake, hw, i, sum, avg_temp, stdout, hist>>
    /\ trace' = Step(trace, "display")
    /\ UNCHANGED <<writes, lines_out>>
    /\ frames_out' = Emit(frames_out, Format2(avg_temp))
    /\ UNCHANGED <<conv_raw, conv_ret, busy_ticks, credit>>

MainLoop ==
    \/ CheckFlag \/ Wfi \/ WfiReturn \/ ClearFlag
    \/ Drain \/ AdcStop1 \/ FifoSetup \/ AdcStart
    \/ DmaConfigure \/ DmaWait \/ AdcStop2
    \/ FoldInit \/ FoldStep \/ Average
    \/ PrintLine \/ display_temperature

Next == alarm_callback \/ OtherIrq \/ AdcSample \/ DmaTransfer \/ MainLoop

Spec == Init /\ [][Next]_vars

\* The ADC converts while it runs, the DMA engine serves its request, and the
\* core executes the main loop.
LiveSpec == Spec /\ WF_vars(AdcSample) /\ WF_vars(DmaTransfer) /\ WF_vars(MainLoop)

\* The same, with the repeating timer firing again and again.
TickSpec == LiveSpec /\ WF_vars(alarm_callback)

\* The converter on its own: one call after another, with any 12-bit argument.
ConvCall ==
    /\ \E r \in 0..RAW_MAX :
         /\ conv_raw' = r
         /\ conv_ret' = convert_to_celsius(r)
    /\ UNCHANGED <<timer_fired, timer_active, wake, hw, cpu, out, hist>>
    /\ UNCHANGED <<trace, writes, lines_out, frames_out, busy_ticks, credit>>

ConvSpec == Init /\ [][ConvCall]_vars

TypeOK ==
    /\ pc \in IdlePcs \cup SamplingPcs \cup PresentingPcs
    /\ timer_fired \in BOOLEAN
    /\ adc_running \in BOOLEAN
    /\ dma_busy \in BOOLEAN
    /\ Len(adc_fifo) <= FifoDepth
    /\ dma_count \in 0..NUM_SAMPLES
    /\ dma_waddr \in 0..NUM_SAMPLES
    /\ i \in 0..NUM_SAMPLES

\* ---------------------------------------------------------------- properties

\* C1 Buffer ownership: while a DMA burst is in flight the main loop sits in
\* the blocking wait; it never executes the averaging loop (the only reader
\* of adc_buffer) while the channel may still write the buffer.
BufferOwnership ==
    /\ dma_busy => pc = "wait"
    /\ pc \in {"fold_init", "fold", "avg"} => ~dma_busy
\* a burst is half done and a tick has arrived meanwhile
BufferOwnershipWitness == dma_busy /\ dma_waddr > 0 /\ timer_fired /\ pc = "wait"

\* C2 Coalescing: since the most recent tick the main loop has left Idle at
\* most once, however many ticks fired before it looked at the flag, and
\* ticks fired in Idle leave the flag set until the loop leaves Idle.
Coalescing ==
    /\ cycles_since_tick <= 1
    /\ (pc \in IdlePcs /\ idle_ticks > 0) => timer_fired
\* two ticks fired in Idle and the loop has left Idle once
CoalescingWitness == pc = "clear" /\ idle_ticks >= 2 /\ cycles_since_tick = 1

\* C3 State machine: the phase changes only Idle -> Sampling (with the flag
\* observed true), Sampling -> Presenting and Presenting -> Idle, and the
\* acquisition cycle is entered only by the step that clears the flag.
StateMachine ==
    [][ /\ Phase(pc') # Phase(pc) =>
            \/ Phase(pc) = "Idle" /\ Phase(pc') = "Sampling" /\ timer_fired
                 /\ pc = "check" /\ pc' = "clear"
            \/ Phase(pc) = "Sampling" /\ Phase(pc') = "Presenting"
            \/ Phase(pc) = "Presenting" /\ Phase(pc') = "Idle"
        /\ (pc' = "drain" /\ pc # "drain") => (pc = "clear" /\ ~timer_fired')
      ]_vars
\* a whole round Idle -> Sampling -> Presenting -> Idle has been made
StateMachineWitness == pc = "check" /\ oled # <<>> /\ stdout = oled

\* C4 Single writer, single reader: the flag rises only in the timer callback
\* and falls only in the main loop's clear step.
SingleWriterSingleReader ==
    [][ /\ (~timer_fired /\ timer_fired') => alarm_callback
        /\ (timer_fired /\ ~timer_fired') => ClearFlag
      ]_vars
\* the flag was cleared by the loop and set again by the callback during the cycle
SingleWriterSingleReaderWitness == pc = "stop1" /\ timer_fired /\ idle_ticks = 0

\* C5 No stale samples: everything the burst has written, and the whole
\* buffer when the fold runs, was produced after this cycle's drain step.
NoStaleSamples ==
    /\ pc \in {"wait", "stop2"} =>
          \A k \in DOMAIN adc_buffer : k < dma_waddr => adc_buffer[k].age = "fresh"
    /\ pc \in {"fold_init", "fold", "avg"} =>
          \A k \in DOMAIN adc_buffer : adc_buffer[k].age = "fresh"
\* the fold starts in a cycle whose drain step discarded leftover entries
NoStaleSamplesWitness == pc = "fold" /\ i = 0 /\ drained > 0

\* C6 The wait returns only after all NUM_SAMPLES transfers of the burst.
WaitCompletes ==
    pc \in {"stop2", "fold_init", "fold", "avg"} =>
        /\ ~dma_busy
        /\ dma_count = 0
        /\ dma_waddr = NUM_SAMPLES
\* the averaging step is reached
WaitCompletesWitness == pc = "avg" /\ i = NUM_SAMPLES /\ dma_waddr = NUM_SAMPLES

\* C7 No re-entrant triggering: the channel is idle whenever it is armed.
NoReentrantArm == [][DmaConfigure => ~dma_busy]_vars
\* a second burst is armed, with a tick pending
NoReentrantArmWitness == pc = "wait" /\ dma_busy /\ stdout # <<>> /\ timer_fired

\* C8 The callback only sets the flag: buffer, ADC, FIFO, DMA channel, main
\* loop position and output are as before.
CallbackFrame ==
    [][alarm_callback =>
          /\ timer_fired'
          /\ UNCHANGED <<adc_buffer, adc_running, fifo_en, adc_fifo>>
          /\ UNCHANGED <<dma_busy, dma_count, dma_waddr>>
          /\ UNCHANGED <<pc, i, sum, avg_temp>>
          /\ UNCHANGED <<stdout, oled>>
      ]_vars
\* the callback has run in the middle of the fold
CallbackFrameWitness == pc = "fold" /\ i = 1 /\ timer_fired

\* C9 The ADC runs only between its restart and the stop after the wait; it
\* is stopped in Idle and in Presenting.
AdcWindow ==
    /\ pc \in IdlePcs \cup PresentingPcs => ~adc_running
    /\ adc_running => pc \in {"arm", "wait", "stop2"}
\* Presenting after a cycle in which the ADC ran on after the burst
AdcWindowWitness == pc = "print" /\ ~adc_running /\ Len(adc_fifo) > 0

\* C10 An armed burst runs to completion and the loop reaches Presenting; a
\* burst ends only by its last transfer.
BurstCompletes ==
    /\ dma_busy ~> (pc \in PresentingPcs)
    /\ [][(dma_busy /\ ~dma_busy') => (dma_count' = 0 /\ dma_waddr' = NUM_SAMPLES)]_vars
\* Presenting reached after a burst during which a tick fired
BurstCompletesWitness ==
    pc = "display" /\ ~dma_busy /\ dma_waddr = NUM_SAMPLES /\ timer_fired

\* Number of steps of the current cycle done when the loop is at position p.
StepsDone(p) ==
    CASE p = "clear" -> 1
      [] p = "drain" -> 2
      [] p = "stop1" -> 3
      [] p = "setup" -> 4
      [] p = "run" -> 5
      [] p = "arm" -> 6
      [] p = "wait" -> 7
      [] p = "stop2" -> 8
      [] p \in {"fold_init", "fold", "avg"} -> 9
      [] p = "print" -> 10
      [] p = "display" -> 11
      [] OTHER -> 12

\* C11 Order of the cycle: the steps executed since the flag was observed are
\* an initial part of observe, clear, drain, stop, setup, start, arm, wait,
\* stop, average, print, display, each step once, as far as the loop has got;
\* before the first observation no step has been executed.
CycleOrdered ==
    /\ trace = SubSeq(CycleOrder, 1, Len(trace))
    /\ pc \notin IdlePcs => Len(trace) = StepsDone(pc)
    /\ pc \in IdlePcs => Len(trace) \in {0, Len(CycleOrder)}
\* a whole cycle has been executed and the next tick is pending
CycleOrderedWitness == trace = CycleOrder /\ pc = "check" /\ timer_fired

\* the raw words held in the buffer
RawWords(buf) == [k \in DOMAIN buf |-> buf[k].raw]

\* C12 Buffer writes: a burst writes the indices 0, 1, 2, ... in this order,
\* each once and none outside 0..NUM_SAMPLES-1; after the wait it has written
\* all NUM_SAMPLES of them; and the words of the buffer change only while the
\* loop is in the wait of an armed burst.
BurstWrites ==
    /\ [](/\ writes = [k \in 1..Len(writes) |-> k - 1]
          /\ Len(writes) <= NUM_SAMPLES
          /\ pc \in {"stop2", "fold_init", "fold", "avg", "print", "display"} =>
                Len(writes) = NUM_SAMPLES)
    /\ [][pc # "wait" => RawWords(adc_buffer') = RawWords(adc_buffer)]_vars
\* a later burst has overwritten the whole buffer and the wait is about to return
BurstWritesWitness ==
    pc = "wait" /\ ~dma_busy /\ Len(writes) = NUM_SAMPLES /\ stdout # <<>>

\* Sum of the converted first n words of the buffer, and their mean over
\* NUM_SAMPLES, computed from the buffer as a whole.
RECURSIVE SumCelsius(_, _)
SumCelsius(buf, n) ==
    IF n = 0 THEN 0 ELSE SumCelsius(buf, n - 1) + convert_to_celsius(buf[n - 1].raw)
MeanCelsius(buf) == SumCelsius(buf, NUM_SAMPLES) \div NUM_SAMPLES

AverageIsMean ==
    /\ pc = "fold" => sum = SumCelsius(adc_buffer, i)
    /\ pc = "avg" => sum = SumCelsius(adc_buffer, NUM_SAMPLES)
    /\ pc \in PresentingPcs =>
          /\ avg_temp = SumCelsius(adc_buffer, NUM_SAMPLES) \div NUM_SAMPLES
          /\ \A r \in RawSamples :
                (\A k \in DOMAIN adc_buffer : adc_buffer[k].raw = r) =>
                    avg_temp = convert_to_celsius(r)
\* the average of a buffer of identical readings has been computed
AverageIsMeanWitness ==
    /\ pc = "print"
    /\ \A k \in DOMAIN adc_buffer : adc_buffer[k].raw = 825
    /\ avg_temp = convert_to_celsius(825)

\* C15 convert_to_celsius is strictly decreasing: of two calls, the one with
\* the larger 12-bit argument returns the smaller temperature.
ConvertDecreasing ==
    [][conv_raw < conv_raw' => conv_ret > conv_ret']_vars
\* the converter has been applied to the largest reading
ConvertDecreasingWitness ==
    conv_raw = RAW_MAX /\ conv_ret = convert_to_celsius(RAW_MAX) /\ conv_ret < convert_to_celsius(0)

\* C16 No terminal state: the main loop is always at a statement of the
\* while (true) body, never past it, and the repeating timer stays
\* registered: no callback ends it and the cancel after the loop is not run.
NoTerminalState ==
    /\ pc \in IdlePcs \cup SamplingPcs \cup PresentingPcs
    /\ timer_active
\* the loop has come round after a whole cycle and waits again, timer still on
NoTerminalStateWitness ==
    pc = "sleeping" /\ trace = CycleOrder /\ ~timer_fired /\ timer_active

\* C17 No lost wake-up: while the timer keeps firing, a main loop in Idle
\* always gets to the clear step, also when it went to sleep with the flag
\* already set.
NoLostWakeup == (pc \in IdlePcs) ~> (pc = "clear")
\* a tick landed between the test of the flag and __wfi(): the core sleeps
\* with the flag set
NoLostWakeupWitness == pc = "sleeping" /\ timer_fired /\ ~wake

\* C18 Ticks during processing: ticks fired in Sampling (after the clear) or
\* in Presenting leave the flag set until the loop clears it again; back in
\* Idle the loop goes from the test straight to a new cycle, never into
\* __wfi(), and it starts one cycle for all of them.
TicksDuringProcessing ==
    /\ [](/\ busy_ticks > 0 => timer_fired
          /\ (busy_ticks > 0 /\ pc \in IdlePcs) => pc = "check"
          /\ cycles_since_tick <= 1)
    /\ [][(busy_ticks > 0 /\ pc = "check" /\ pc' # pc) => pc' = "clear"]_vars
\* two ticks fired during the previous cycle and one new cycle has begun
TicksDuringProcessingWitness ==
    pc = "clear" /\ busy_ticks >= 2 /\ idle_ticks = 0 /\ cycles_since_tick = 1

\* C19 Cycles within ticks: the ticks fired so far are never fewer than the
\* cycles started so far (credit is their difference, counted up to MaxCount
\* only, so it never exceeds the true difference).
CyclesWithinTicks == credit >= 0
\* a later cycle has started and has used up the only tick not yet accounted for
CyclesWithinTicksWitness == pc = "drain" /\ credit = 0 /\ stdout # <<>>

====
